---- MODULE Spec2Model ----
(***************************************************************************)
(* Model of arbitrage_bot.py: one invocation of main() is a cycle that     *)
(* ensures the log sheet's header, loads the settings, fetches two XE      *)
(* rates, derives USD/MYR, processes every configured coin (KuCoin and     *)
(* Luno quotes, two spreads, alert decisions), appends the batch of rows   *)
(* to the log sheet and sends the Telegram alerts.                         *)
(*                                                                         *)
(* Python floats are modelled as exact rationals <<n, d>> (d > 0, lowest   *)
(* terms); a division by zero raises ZeroDivisionError as in Python.  An   *)
(* empty spreadsheet cell ("") of a numeric column is the empty tuple.     *)
(* Calls to the Google Sheets API are taken to succeed.                    *)
(***************************************************************************)
EXTENDS Integers, Sequences, FiniteSets, TLC

VARIABLES
    sheet,       \* the Log worksheet: the sequence of its rows
    sheet0,      \* the Log worksheet as main() found it
    runs,        \* number of invocations of main() started so far
    pc,          \* position of main()
    exc,         \* the exception main() ended with ("" when none)
    alert_bps, coins, tg_token, tg_chat_id,   \* what load_settings returned
    usd_thb, myr_thb, usd_myr, ts,            \* locals of main()
    idx,         \* position of `for coin in coins`
    rows, alerts,
    trace,       \* per processed coin: the venue responses and what was added
    fetches,     \* venue requests made in this invocation
    nidx,        \* position of `for ... in alerts`
    attempts,    \* send_telegram calls made in this invocation
    sent,        \* messages delivered in this invocation
    calc         \* inputs and results of a stand-alone spread computation

vars == <<sheet, sheet0, runs, pc, exc, alert_bps, coins, tg_token, tg_chat_id,
          usd_thb, myr_thb, usd_myr, ts, idx, rows, alerts, trace, fetches,
          nidx, attempts, sent, calc>>

----------------------------------------------------------------------------
\* Bounds of the model.

\* Longest COINS list of a single-cycle run.
MaxCoins == 2
\* Number of invocations of main() and longest COINS list of the multi-cycle runs.
MaxRuns == 2
MaxRunCoins == 1
\* Largest price of the stand-alone spread computations.
MaxPrice == 10

----------------------------------------------------------------------------
\* Exact rational arithmetic standing for Python's float arithmetic.

Abs(n) == IF n < 0 THEN -n ELSE n

RECURSIVE GCD(_, _)
GCD(a, b) == IF b = 0 THEN a ELSE GCD(b, a % b)

Norm(n, d) ==
    LET s == IF d < 0 THEN -1 ELSE 1
        g == GCD(Abs(n), Abs(d))
    IN  <<(s * n) \div g, (s * d) \div g>>

Rat(n) == <<n, 1>>
Zero == Rat(0)
RatAdd(a, b) == Norm(a[1] * b[2] + b[1] * a[2], a[2] * b[2])
RatSub(a, b) == Norm(a[1] * b[2] - b[1] * a[2], a[2] * b[2])
RatMul(a, b) == Norm(a[1] * b[1], a[2] * b[2])
\* a / b for b # 0 (Python raises ZeroDivisionError otherwise).
RatDiv(a, b) == Norm(a[1] * b[2], a[2] * b[1])
RatNeg(a) == <<-a[1], a[2]>>
RatGeq(a, b) == a[1] * b[2] >= b[1] * a[2]
RatLt(a, b) == a[1] * b[2] < b[1] * a[2]

\* An empty cell / a local not yet assigned.
Empty == <<>>

----------------------------------------------------------------------------
\* Input domains.  A venue quote is <<bid, ask>>; a failed request is Empty.

ThresholdVals == {-250, 200}          \* ALERT_BPS cell values (default "200")
RateVals == {0, 1, 2}                 \* rates XE's page can show (\d+\.\d+)
KuQuotes == {<<99, 100>>, <<0, 101>>, <<0, 0>>}
LuQuotes == {<<202, 202>>, <<196, 0>>, <<0, 0>>}
CoinName(i) == IF i % 2 = 1 THEN "BTC" ELSE "ETH"
CoinLists(max) == {[i \in 1..n |-> CoinName(i)] : n \in 0..max}

\* Inputs of a single-cycle run.
Full ==
    [thresholds |-> ThresholdVals, coinlists |-> CoinLists(MaxCoins),
     tokens |-> {"", "tok"}, chats |-> {"", "chat"},
     rates |-> RateVals, ku |-> KuQuotes, lu |-> LuQuotes]

\* Inputs of the multi-cycle runs.
Narrow ==
    [thresholds |-> {200}, coinlists |-> CoinLists(MaxRunCoins),
     tokens |-> {"tok"}, chats |-> {"", "chat"},
     rates |-> {0, 2}, ku |-> {<<99, 100>>}, lu |-> {<<202, 202>>}]

----------------------------------------------------------------------------
\* The Log worksheet.

Header ==
    <<"Timestamp", "Side", "Coin", "Luno(MYR)", "KuCoin(USDT)", "USD/MYR",
      "USD/THB", "MYR/THB", "Luno(USD)", "Spread(bps)", "Error">>

\* Columns of a row.
Side(r) == r[2]
Coin(r) == r[3]
LunoMyr(r) == r[4]
KuUsdt(r) == r[5]
UsdMyr(r) == r[6]
UsdThb(r) == r[7]
MyrThb(r) == r[8]
LunoUsd(r) == r[9]
Spread(r) == r[10]
Error(r) == r[11]

IsHeader(r) == Side(r) = "Side"
IsData(r) == Side(r) \in {"Bid", "Ask", "ERR"}

\* Mutant of HeaderNeeded: the emptiness test is dropped.
HeaderAlways(ws) == TRUE

\* ensure_headers: the header is added when get_all_values() is empty.
HeaderNeeded(ws) == Len(ws) = 0
ensure_headers(ws) == IF HeaderNeeded(ws) THEN Append(ws, Header) ELSE ws

\* A row an earlier cycle left in the sheet.
PriorRow == <<0, "ERR", "BTC", Empty, Empty, Rat(2), Rat(2), Rat(1), Empty, Empty, "kucoin">>
InitSheets == {<<>>, <<Header, PriorRow>>}

----------------------------------------------------------------------------
\* The spread computation and the alert decision.

\* 10000 * ((x - y) / ((x + y) / 2)); raises ZeroDivisionError when (x + y) / 2 = 0.
SpreadDefined(x, y) == RatDiv(RatAdd(x, y), Rat(2)) # Zero
\* Mutant of SpreadBps: relative to the second price instead of the midpoint.
SpreadRatio(x, y) == RatMul(Rat(10000), RatDiv(RatSub(x, y), y))

SpreadBps(x, y) ==
    RatMul(Rat(10000), RatDiv(RatSub(x, y), RatDiv(RatAdd(x, y), Rat(2))))

\* Mutants of AlertFires: a strict comparison; a comparison of the magnitude.
AlertFiresStrict(spr, threshold) == RatLt(threshold, spr)
AlertFiresAbs(spr, threshold) == RatGeq(<<Abs(spr[1]), spr[2]>>, threshold)

\* `if spr >= alert_bps`
AlertFires(spr, threshold) == RatGeq(spr, threshold)

\* Mutant of TelegramEnabled: only the token is tested.
TelegramTokenOnly(token, chat) == token # ""

\* `if tg_token and tg_chat_id`
TelegramEnabled(token, chat) == token # "" /\ chat # ""

ErrRow(coin, e) ==
    <<ts, "ERR", coin, Empty, Empty, usd_myr, usd_thb, myr_thb, Empty, Empty, e>>

NoResult == [ok |-> FALSE, rows |-> <<>>, alerts |-> <<>>]

\* One direction of the try block: normalise Luno's price, compute the spread,
\* add the row, decide the alert.  ok is FALSE when a division raised.
Direction(side, coin, lu, ku) ==
    IF usd_myr = Zero THEN NoResult
    ELSE LET luno_usd == RatDiv(lu, usd_myr) IN
         IF ~SpreadDefined(luno_usd, ku) THEN NoResult
         ELSE LET spr == SpreadBps(luno_usd, ku) IN
              [ok |-> TRUE,
               rows |-> << <<ts, side, coin, lu, ku, usd_myr, usd_thb, myr_thb,
                             luno_usd, spr, "">> >>,
               alerts |-> IF AlertFires(spr, alert_bps)
                          THEN << <<coin, side, spr, luno_usd, ku>> >>
                          ELSE <<>>]

\* One iteration of `for coin in coins`: what it adds to rows and alerts, given
\* the venues' responses (Empty: the request or its parsing raised).
ProcessCoin(coin, kuq, luq) ==
    IF kuq = Empty THEN [rows |-> <<ErrRow(coin, "kucoin")>>, alerts |-> <<>>]
    ELSE IF luq = Empty THEN [rows |-> <<ErrRow(coin, "luno")>>, alerts |-> <<>>]
    ELSE LET bid == Direction("Bid", coin, Rat(luq[1]), Rat(kuq[2])) IN
         IF ~bid.ok
         THEN [rows |-> <<ErrRow(coin, "float division by zero")>>, alerts |-> <<>>]
         ELSE LET ask == Direction("Ask", coin, Rat(luq[2]), Rat(kuq[1])) IN
              IF ~ask.ok
              THEN [rows |-> Append(bid.rows, ErrRow(coin, "float division by zero")),
                    alerts |-> bid.alerts]
              ELSE [rows |-> bid.rows \o ask.rows, alerts |-> bid.alerts \o ask.alerts]

\* f"{spr:.2f}": the nearest hundredth, ties to even.
Round2(r) ==
    LET n == r[1] * 100
        fl == n \div r[2]
        twice == 2 * (n - fl * r[2])
        k == IF twice > r[2] THEN fl + 1
             ELSE IF twice < r[2] THEN fl
             ELSE IF fl % 2 = 0 THEN fl ELSE fl + 1
    IN  Norm(k, 100)

\* The text of an alert's message, by its fields.
Message(a) ==
    [coin |-> a[1], side |-> a[2], spread |-> Round2(a[3]), luno_usd |-> a[4],
     kucoin |-> a[5], usd_thb |-> usd_thb, myr_thb |-> myr_thb,
     usd_myr |-> usd_myr, time |-> ts]

----------------------------------------------------------------------------
\* main()

IdleCalc == [x |-> Zero, y |-> Zero, xy |-> Empty, yx |-> Empty]

Locals ==
    /\ pc = "start"
    /\ exc = ""
    /\ alert_bps = Empty /\ coins = <<>> /\ tg_token = "" /\ tg_chat_id = ""
    /\ usd_thb = Empty /\ myr_thb = Empty /\ usd_myr = Empty /\ ts = 0
    /\ idx = 1 /\ rows = <<>> /\ alerts = <<>> /\ trace = <<>> /\ fetches = <<>>
    /\ nidx = 1 /\ attempts = 0 /\ sent = <<>>

Init ==
    /\ sheet \in InitSheets
    /\ sheet0 = sheet
    /\ runs = 1
    /\ Locals
    /\ calc = IdleCalc

InitRuns ==
    /\ sheet = <<>>
    /\ sheet0 = sheet
    /\ runs = 1
    /\ Locals
    /\ calc = IdleCalc

settings == <<alert_bps, coins, tg_token, tg_chat_id>>
fx == <<usd_thb, myr_thb, usd_myr, ts>>
loop == <<idx, rows, alerts, trace, fetches>>
notify == <<nidx, attempts, sent>>

\* An exception leaves main().
Raise(e) == pc' = "aborted" /\ exc' = e

\* Mutant of RateUnavailable: the failure is logged as an ERR row before main() ends.
RateUnavailableLogged ==
    /\ Raise("RateUnavailable")
    /\ sheet' = Append(sheet, <<runs, "ERR", "", Empty, Empty, Empty, Empty, Empty,
                                Empty, Empty, "RateUnavailable">>)
    /\ UNCHANGED <<sheet0, runs, settings, fx, loop, notify, calc>>

\* get_xe_rate raised (the request failed or neither pattern matched).
RateUnavailable ==
    /\ Raise("RateUnavailable")
    /\ UNCHANGED <<sheet, sheet0, runs, settings, fx, loop, notify, calc>>

\* connect_sheet, ss.worksheet and ensure_headers(log_ws).
EnsureHeaders ==
    /\ pc = "start"
    /\ sheet0' = sheet
    /\ sheet' = ensure_headers(sheet)
    /\ pc' = "settings"
    /\ UNCHANGED <<runs, exc, settings, fx, loop, notify, calc>>

LoadSettings(in) ==
    /\ pc = "settings"
    /\ \E t \in in.thresholds, c \in in.coinlists, tok \in in.tokens, chat \in in.chats :
          /\ alert_bps' = Rat(t)
          /\ coins' = c
          /\ tg_token' = tok
          /\ tg_chat_id' = chat
    /\ pc' = "fx1"
    /\ UNCHANGED <<sheet, sheet0, runs, exc, fx, loop, notify, calc>>

\* usd_thb = get_xe_rate("USD", "THB")
FetchUsdThb(in) ==
    /\ pc = "fx1"
    /\ \/ RateUnavailable
       \/ \E r \in in.rates :
             /\ usd_thb' = Rat(r)
             /\ pc' = "fx2"
             /\ UNCHANGED <<sheet, sheet0, runs, exc, settings, myr_thb, usd_myr, ts,
                            loop, notify, calc>>

\* myr_thb = get_xe_rate("MYR", "THB"); usd_myr = usd_thb / myr_thb; ts; rows; alerts
FetchMyrThb(in) ==
    /\ pc = "fx2"
    /\ \/ RateUnavailable
       \/ \E r \in in.rates :
             /\ myr_thb' = Rat(r)
             /\ IF r = 0
                THEN /\ Raise("ZeroDivisionError")
                     /\ UNCHANGED <<usd_myr, ts>>
                ELSE /\ usd_myr' = RatDiv(usd_thb, Rat(r))
                     /\ ts' = runs
                     /\ pc' = "assets"
                     /\ UNCHANGED exc
             /\ UNCHANGED <<sheet, sheet0, runs, settings, usd_thb, loop, notify, calc>>

\* One iteration of `for coin in coins`.
ProcessAsset(in) ==
    /\ pc = "assets"
    /\ idx <= Len(coins)
    /\ \E kuq \in in.ku \cup {Empty} :
       \E luq \in (IF kuq = Empty THEN {Empty} ELSE in.lu \cup {Empty}) :
          LET coin == coins[idx]
              res == ProcessCoin(coin, kuq, luq)
          IN  /\ rows' = rows \o res.rows
              /\ alerts' = alerts \o res.alerts
              /\ trace' = Append(trace, [coin |-> coin, ku |-> kuq, lu |-> luq,
                                         rows |-> res.rows, alerts |-> res.alerts])
              /\ fetches' = fetches \o (IF kuq = Empty
                                        THEN << <<"kucoin", coin>> >>
                                        ELSE << <<"kucoin", coin>>, <<"luno", coin>> >>)
    /\ idx' = idx + 1
    /\ UNCHANGED <<sheet, sheet0, runs, pc, exc, settings, fx, notify, calc>>

\* log_ws.append_rows(rows)
AppendRows ==
    /\ pc = "assets"
    /\ idx > Len(coins)
    /\ sheet' = sheet \o rows
    /\ pc' = "notify"
    /\ UNCHANGED <<sheet0, runs, exc, settings, fx, loop, notify, calc>>

\* send_telegram returned.
SendDelivered ==
    /\ pc = "notify"
    /\ TelegramEnabled(tg_token, tg_chat_id)
    /\ nidx <= Len(alerts)
    /\ sent' = Append(sent, Message(alerts[nidx]))
    /\ attempts' = attempts + 1
    /\ nidx' = nidx + 1
    /\ UNCHANGED <<sheet, sheet0, runs, pc, exc, settings, fx, loop, calc>>

\* requests.post raised inside send_telegram (a timeout, a connection error).
SendRaises ==
    /\ pc = "notify"
    /\ TelegramEnabled(tg_token, tg_chat_id)
    /\ nidx <= Len(alerts)
    /\ attempts' = attempts + 1
    /\ Raise("NotificationDeliveryFailure")
    /\ UNCHANGED <<sheet, sheet0, runs, settings, fx, loop, nidx, sent, calc>>

\* main() returns.
Finish ==
    /\ pc = "notify"
    /\ ~TelegramEnabled(tg_token, tg_chat_id) \/ nidx > Len(alerts)
    /\ pc' = "done"
    /\ UNCHANGED <<sheet, sheet0, runs, exc, settings, fx, loop, notify, calc>>

\* The scheduler invokes main() again.
Restart ==
    /\ pc \in {"done", "aborted"}
    /\ runs < MaxRuns
    /\ runs' = runs + 1
    /\ sheet0' = sheet
    /\ pc' = "start"
    /\ exc' = ""
    /\ alert_bps' = Empty /\ coins' = <<>> /\ tg_token' = "" /\ tg_chat_id' = ""
    /\ usd_thb' = Empty /\ myr_thb' = Empty /\ usd_myr' = Empty /\ ts' = 0
    /\ idx' = 1 /\ rows' = <<>> /\ alerts' = <<>> /\ trace' = <<>> /\ fetches' = <<>>
    /\ nidx' = 1 /\ attempts' = 0 /\ sent' = <<>>
    /\ UNCHANGED <<sheet, calc>>

Next ==
    \/ EnsureHeaders
    \/ LoadSettings(Full)
    \/ FetchUsdThb(Full)
    \/ FetchMyrThb(Full)
    \/ ProcessAsset(Full)
    \/ AppendRows
    \/ SendDelivered
    \/ SendRaises
    \/ Finish

Spec == Init /\ [][Next]_vars

NextRuns ==
    \/ EnsureHeaders
    \/ LoadSettings(Narrow)
    \/ FetchUsdThb(Narrow)
    \/ FetchMyrThb(Narrow)
    \/ ProcessAsset(Narrow)
    \/ AppendRows
    \/ SendDelivered
    \/ SendRaises
    \/ Finish
    \/ Restart

SpecRuns == InitRuns /\ [][NextRuns]_vars

----------------------------------------------------------------------------
\* The spread formula on its own.

Prices == {Norm(p, d) : p \in 1..MaxPrice, d \in 1..2}

InitSpread ==
    /\ sheet = <<>>
    /\ sheet0 = sheet
    /\ runs = 1
    /\ Locals
    /\ calc \in {[x |-> p, y |-> q, xy |-> Empty, yx |-> Empty] : p, q \in Prices}

ComputeSpread ==
    /\ calc.xy = Empty
    /\ calc' = [calc EXCEPT !.xy = SpreadBps(calc.x, calc.y),
                            !.yx = SpreadBps(calc.y, calc.x)]
    /\ UNCHANGED <<sheet, sheet0, runs, pc, exc, settings, fx, loop, notify>>

SpecSpread == InitSpread /\ [][ComputeSpread]_vars

----------------------------------------------------------------------------
\* Vocabulary of the claims.

Sides(rs) == [k \in 1..Len(rs) |-> Side(rs[k])]
HasSpread(r) == Side(r) \in {"Bid", "Ask"}
Qualifies(r) == HasSpread(r) /\ RatGeq(Spread(r), alert_bps)
AlertOf(r) == <<Coin(r), Side(r), Spread(r), LunoUsd(r), KuUsdt(r)>>
AlertsOf(rs) ==
    LET q == SelectSeq(rs, Qualifies) IN [k \in 1..Len(q) |-> AlertOf(q[k])]
HeaderCount(ws) == Cardinality({i \in 1..Len(ws) : IsHeader(ws[i])})
\* The rows this invocation added to the sheet.
Added == SubSeq(sheet, Len(sheet0) + 1, Len(sheet))
\* A venue request (or its parsing) raised for the coin of this trace entry.
VenueFailed(t) == t.ku = Empty \/ t.lu = Empty
LoopOver == usd_myr # Empty /\ Len(trace) = Len(coins)

RECURSIVE Concat(_)
Concat(ss) == IF ss = <<>> THEN <<>> ELSE Head(ss) \o Concat(Tail(ss))

\* An ERR row: empty price and spread cells, the three rates, a cause.
WellFormedErr(r) ==
    /\ LunoMyr(r) = Empty /\ KuUsdt(r) = Empty /\ LunoUsd(r) = Empty /\ Spread(r) = Empty
    /\ UsdMyr(r) = usd_myr /\ UsdThb(r) = usd_thb /\ MyrThb(r) = myr_thb
    /\ Error(r) # ""

----------------------------------------------------------------------------
\* C1 (as stated): when an XE rate cannot be fetched or parsed, the invocation
\* appends no row at all to the log sheet, fetches no venue quote and sends no alert.
C1_NoRowAtAll ==
    exc = "RateUnavailable" =>
        /\ Len(sheet) = Len(sheet0)
        /\ fetches = <<>>
        /\ attempts = 0 /\ sent = <<>>

\* C1 (amended): when an XE rate cannot be fetched or parsed, the invocation appends
\* no Bid, Ask or ERR row, fetches no venue quote and sends no alert; the only row it
\* can append is the header row, and only when it found the sheet empty.
C1_NoRecordOnFxFailure ==
    exc = "RateUnavailable" =>
        /\ \A i \in 1..Len(Added) : ~IsData(Added[i])
        /\ \/ Added = <<>>
           \/ sheet0 = <<>> /\ sheet = <<Header>>
        /\ rows = <<>> /\ alerts = <<>>
        /\ fetches = <<>>
        /\ attempts = 0 /\ sent = <<>>

C1_Witness ==
    /\ exc = "RateUnavailable"
    /\ usd_thb # Empty
    /\ sheet0 = <<>>
    /\ sheet = <<Header>>

\* C2: when both XE rates were fetched and a venue request failed for exactly one of
\* the configured coins, the batch holds one ERR row for that coin and a Bid row and
\* an Ask row for each other coin, in the configured order.
C2_OneVenueFailure ==
    (LoopOver /\ Cardinality({i \in 1..Len(trace) : VenueFailed(trace[i])}) = 1) =>
        /\ rows = Concat([i \in 1..Len(trace) |-> trace[i].rows])
        /\ \A i \in 1..Len(trace) :
              /\ \A k \in 1..Len(trace[i].rows) : Coin(trace[i].rows[k]) = coins[i]
              /\ Sides(trace[i].rows) =
                    IF VenueFailed(trace[i]) THEN <<"ERR">> ELSE <<"Bid", "Ask">>

\* C3: an alert entry exists for a direction exactly when that direction's spread is
\* greater than or equal to ALERT_BPS, and a coin yields at most two alerts.
C3_AlertIffAtThreshold ==
    /\ alerts = AlertsOf(rows)
    /\ \A i \in 1..Len(trace) :
          /\ trace[i].alerts = AlertsOf(trace[i].rows)
          /\ Len(trace[i].alerts) <= 2

C3_Witness ==
    \E i \in 1..Len(trace) :
        /\ Sides(trace[i].rows) = <<"Bid", "Ask">>
        /\ RatLt(Zero, Spread(trace[i].rows[1]))
        /\ RatLt(Spread(trace[i].rows[1]), alert_bps)
        /\ Spread(trace[i].rows[2]) = alert_bps
        /\ Len(trace[i].alerts) = 1
        /\ trace[i].alerts[1][2] = "Ask"

\* C4 (as stated): no alert entry has a negative spread, whatever ALERT_BPS is.
C4_NegativeNeverAlerts ==
    \A k \in 1..Len(alerts) : RatGeq(alerts[k][3], Zero)

\* C4 (amended): no alert entry has a negative spread when ALERT_BPS is not negative;
\* in every case an alert entry's spread is at least ALERT_BPS.
C4_NegativeNeverAlertsAboveZero ==
    \A k \in 1..Len(alerts) :
        /\ RatGeq(alerts[k][3], alert_bps)
        /\ RatGeq(alert_bps, Zero) => RatGeq(alerts[k][3], Zero)

C4_Witness ==
    /\ pc = "done"
    /\ RatGeq(alert_bps, Zero)
    /\ alerts # <<>>
    /\ \E i \in 1..Len(rows) : HasSpread(rows[i]) /\ RatLt(Spread(rows[i]), Zero)

\* C5: when a send_telegram call raises, main() does not end with the exception and
\* has attempted every alert when it returns.
C5_DeliveryFailureIsolated ==
    attempts > Len(sent) =>
        /\ pc # "aborted"
        /\ pc = "done" => attempts = Len(alerts)

\* C6: every processed coin contributes either a Bid row and an Ask row or a single
\* ERR row, and an ERR row has empty price and spread cells, the three rates and a
\* non-empty error.
C6_PairOrSingleErr ==
    \A i \in 1..Len(trace) :
        /\ Sides(trace[i].rows) \in {<<"Bid", "Ask">>, <<"ERR">>}
        /\ \A k \in 1..Len(trace[i].rows) :
              Side(trace[i].rows[k]) = "ERR" => WellFormedErr(trace[i].rows[k])

\* C7: over any sequence of invocations that starts with an empty sheet, the sheet
\* holds at most one header row, the header is its first row whenever it is not
\* empty, and it is there once the first invocation has passed ensure_headers.
C7_HeaderOnce ==
    /\ HeaderCount(sheet) <= 1
    /\ Len(sheet) > 0 => IsHeader(sheet[1])
    /\ (pc # "start" \/ runs > 1) => HeaderCount(sheet) = 1

C7_Witness ==
    /\ runs >= 2
    /\ pc = "done"
    /\ \E i, j \in 2..Len(sheet) : sheet[i][1] = 1 /\ sheet[j][1] = 2

\* C8: a zero XE rate ends the cycle without records: every Bid, Ask or ERR row
\* carries a strictly positive USD/MYR rate.
C8_RowsCarryPositiveRate ==
    \A i \in 1..Len(rows) : RatLt(Zero, UsdMyr(rows[i]))

\* C9: for positive prices p and q, spreadBps(p, q) = -spreadBps(q, p), and
\* spreadBps(p, p) = 0.
C9_Antisymmetric ==
    calc.xy # Empty =>
        /\ calc.xy = RatNeg(calc.yx)
        /\ calc.x = calc.y => calc.xy = Zero
        /\ calc.x # calc.y => calc.xy # Zero

C9_Witness ==
    /\ calc.xy # Empty
    /\ RatLt(calc.x, calc.y)
    /\ RatLt(calc.xy, Zero)
    /\ RatLt(Zero, calc.yx)

\* C10: a notification is sent only after the cycle's rows were appended; the
\* notifications sent are, in order, those of the cycle's Bid and Ask rows whose spread
\* is at least ALERT_BPS; with an empty token or chat id none is sent and the rows are
\* appended all the same.
C10_NotifyAfterAppend ==
    /\ attempts > 0 => sheet = ensure_headers(sheet0) \o rows
    /\ pc = "done" => sheet = ensure_headers(sheet0) \o rows
    /\ LET q == SelectSeq(rows, Qualifies) IN
          /\ Len(sent) <= Len(q)
          /\ \A k \in 1..Len(sent) :
                sent[k].coin = Coin(q[k]) /\ sent[k].side = Side(q[k])
    /\ (tg_token = "" \/ tg_chat_id = "") => attempts = 0 /\ sent = <<>>

C10_Witness ==
    /\ pc = "done"
    /\ Len(sent) = 2
    /\ Len(rows) = 4
    /\ sent[1].coin # sent[2].coin

====
